---- MODULE Spec2Model ----
(***************************************************************************)
(* Model of the Sage -> Bitrix24 socio synchronisation                     *)
(* (internal/sync/service.go, the bitrix client and the models package).   *)
(*                                                                         *)
(* One Service performs runs of SyncSocios one after the other against a   *)
(* Sage database (sageDB) and a Bitrix24 store (store).  Every blocking    *)
(* call of a run is one step; its outcome is chosen by the environment.    *)
(* The run's context can be cancelled at any moment of the run.            *)
(*                                                                         *)
(* Strings built with fmt.Sprintf are tuples of their parts.  A            *)
(* participation percentage is an integer number of hundredths; its        *)
(* formatted string is the tuple <<whole, tenths, hundredths>>.            *)
(***************************************************************************)
EXTENDS Integers, Sequences, FiniteSets, TLC

\* ---------------------------------------------------------------- bounds
MaxSage == 3      \* rows of the Sage query result
MaxRemote == 2    \* items in the Bitrix24 store before the first run
MaxRuns == 2      \* calls of SyncSocios
MaxDirect == 2    \* records handed to synchronizeSocios when it is entered directly
MaxHttpSage == 1  \* rows of the Sage query result when the remote can give any reply
MaxHttpRemote == 1 \* items in the Bitrix24 store when the remote can give any reply
MaxConcSage == 1  \* rows of the Sage query result when two runs are concurrent
MaxConcRemote == 1 \* items in the Bitrix24 store when two runs are concurrent
MaxScanRows == 2  \* rows of the Sage query result when rows can fail to scan
MaxTable == 3     \* rows of the Socios table
MaxKeys == 2      \* DNIs handed to GetAllExcept

\* ------------------------------------------------------------ data model
Nil == <<>>       \* a nil error

\* models.Socio values the Sage query can return (non-empty DNI, see GetAll).
SageUniverse ==
  { [DNI |-> "A", Administrador |-> TRUE, CargoAdministrador |-> "Director",
     PorParticipacion |-> 1250, RazonSocialEmpleado |-> "Acme"],
    [DNI |-> "A", Administrador |-> FALSE, CargoAdministrador |-> "",
     PorParticipacion |-> 0, RazonSocialEmpleado |-> ""],
    [DNI |-> "B", Administrador |-> FALSE, CargoAdministrador |-> "",
     PorParticipacion |-> 10000, RazonSocialEmpleado |-> "Beta"] }

\* Field values of items found in the Bitrix24 store before the first run.
RemoteUniverse ==
  { [Title |-> "Acme", DNI |-> "A", Cargo |-> "Director", Administrador |-> "Y",
     Participacion |-> <<12, 5, 0>>, RazonSocialEmpleado |-> "Acme"],
    [Title |-> "Acme", DNI |-> "A", Cargo |-> "Old", Administrador |-> "Y",
     Participacion |-> <<12, 5>>, RazonSocialEmpleado |-> "Acme"],
    [Title |-> "Lead", DNI |-> "", Cargo |-> "", Administrador |-> "N",
     Participacion |-> <<0>>, RazonSocialEmpleado |-> ""] }

\* ORDER BY p.Dni of the Sage query.
DniRank(d) == CASE d = "" -> 0 [] d = "A" -> 1 [] d = "B" -> 2

SortedByDni(s) == \A i \in 1..(Len(s) - 1) : DniRank(s[i].DNI) <= DniRank(s[i + 1].DNI)

BoundedSeq(S, n) == UNION { [1..k -> S] : k \in 0..n }

\* The store assigns the ids; items are kept in id order.
WithIds(s) == [i \in 1..Len(s) |->
  [ID |-> i, Title |-> s[i].Title, DNI |-> s[i].DNI, Cargo |-> s[i].Cargo,
   Administrador |-> s[i].Administrador, Participacion |-> s[i].Participacion,
   RazonSocialEmpleado |-> s[i].RazonSocialEmpleado]]

\* ------------------------------------------------------- pure functions
\* A float64 percentage with at most two decimals is held as its number of
\* hundredths (12.5 is 1250); a string of digits with a decimal point is held
\* as <<whole part, first fractional digit, second fractional digit, ...>>
\* ("12.50" is <<12, 5, 0>>, "12.5" is <<12, 5>>, "0" is <<0>>).

\* Mutant of formatFloat: one fractional digit.
formatFloatOneDigit(f) == <<f \div 100, (f % 100) \div 10>>

\* strconv.FormatFloat(f, 'f', 2, 64)
formatFloat(f) == <<f \div 100, (f % 100) \div 10, f % 10>>

\* Mutant of convertSageToBitrix: no default cargo, the title is always the name.
convertSageToBitrixPlain(socio) ==
  [ID |-> 0,
   Title |-> socio.RazonSocialEmpleado,
   DNI |-> socio.DNI,
   Cargo |-> socio.CargoAdministrador,
   Administrador |-> IF socio.Administrador THEN "Y" ELSE "N",
   Participacion |-> formatFloat(socio.PorParticipacion),
   RazonSocialEmpleado |-> socio.RazonSocialEmpleado]

convertSageToBitrix(socio) ==
  [ID |-> 0,
   Title |-> IF socio.RazonSocialEmpleado = "" THEN socio.DNI ELSE socio.RazonSocialEmpleado,
   DNI |-> socio.DNI,
   Cargo |-> IF socio.CargoAdministrador = "" THEN "No especificado" ELSE socio.CargoAdministrador,
   Administrador |-> IF socio.Administrador THEN "Y" ELSE "N",
   Participacion |-> formatFloat(socio.PorParticipacion),
   RazonSocialEmpleado |-> socio.RazonSocialEmpleado]

\* Mutant of NeedsUpdate: the title is compared as well.
NeedsUpdateWithTitle(bitrixSocio, sageSocio) ==
  LET expectedBitrix == convertSageToBitrix(sageSocio) IN
    \/ bitrixSocio.Title # expectedBitrix.Title
    \/ bitrixSocio.Cargo # expectedBitrix.Cargo
    \/ bitrixSocio.Administrador # expectedBitrix.Administrador
    \/ bitrixSocio.Participacion # expectedBitrix.Participacion
    \/ bitrixSocio.RazonSocialEmpleado # expectedBitrix.RazonSocialEmpleado

\* Mutant of NeedsUpdate: the remote fields are compared with the raw source fields.
NeedsUpdateRaw(bitrixSocio, sageSocio) ==
    \/ bitrixSocio.Cargo # sageSocio.CargoAdministrador
    \/ bitrixSocio.Administrador # (IF sageSocio.Administrador THEN "Y" ELSE "N")
    \/ bitrixSocio.Participacion # formatFloat(sageSocio.PorParticipacion)
    \/ bitrixSocio.RazonSocialEmpleado # sageSocio.RazonSocialEmpleado

NeedsUpdate(bitrixSocio, sageSocio) ==
  LET expectedBitrix == convertSageToBitrix(sageSocio) IN
    \/ bitrixSocio.Cargo # expectedBitrix.Cargo
    \/ bitrixSocio.Administrador # expectedBitrix.Administrador
    \/ bitrixSocio.Participacion # expectedBitrix.Participacion
    \/ bitrixSocio.RazonSocialEmpleado # expectedBitrix.RazonSocialEmpleado

\* Mutant of FromSageSocio: an empty cargo stays empty.
FromSageSocioNoDefault(socio) ==
  [ID |-> 0,
   Title |-> IF socio.RazonSocialEmpleado = "" THEN socio.DNI ELSE socio.RazonSocialEmpleado,
   DNI |-> socio.DNI,
   Cargo |-> socio.CargoAdministrador,
   Administrador |-> IF socio.Administrador THEN "Y" ELSE "N",
   Participacion |-> formatFloat(socio.PorParticipacion),
   RazonSocialEmpleado |-> socio.RazonSocialEmpleado]

\* models.BitrixSocio.FromSageSocio: the value it assigns to *bs.
FromSageSocio(socio) ==
  LET admin == IF socio.Administrador THEN "Y" ELSE "N"
      cargo == IF socio.CargoAdministrador = "" THEN "No especificado"
               ELSE socio.CargoAdministrador
      title == IF socio.RazonSocialEmpleado = "" THEN socio.DNI
               ELSE socio.RazonSocialEmpleado
  IN [ID |-> 0,
      Title |-> title,
      DNI |-> socio.DNI,
      Cargo |-> cargo,
      Administrador |-> admin,
      Participacion |-> formatFloat(socio.PorParticipacion),
      RazonSocialEmpleado |-> socio.RazonSocialEmpleado]

\* models.BitrixSocio.NeedsUpdate
ModelsNeedsUpdate(bs, sageSocio) ==
  LET newBitrix == FromSageSocio(sageSocio) IN
    \/ bs.Cargo # newBitrix.Cargo
    \/ bs.Administrador # newBitrix.Administrador
    \/ bs.Participacion # newBitrix.Participacion
    \/ bs.RazonSocialEmpleado # newBitrix.RazonSocialEmpleado

IsValid(s) == s.DNI # ""

\* A column that holds the SQL NULL.
SqlNull == "<NULL>"

\* Mutant of ScanFromDB: every row scans.
ScanFromDBAlways(row) == TRUE

\* Socio.ScanFromDB: rows.Scan fails on a NULL in a string column.
ScanFromDB(row) ==
  /\ row.DNI # SqlNull
  /\ row.CargoAdministrador # SqlNull
  /\ row.RazonSocialEmpleado # SqlNull

\* The body of the loop over rows: a row that does not scan is skipped, a
\* socio that is not valid is not appended.
Kept(row) == ScanFromDB(row) /\ IsValid(row)

\* GetAll: the rows of the query, scanned, valid socios only.
GetAll(db) == SelectSeq(db, Kept)

\* WHERE DNI IS NOT NULL AND DNI != '' [AND DNI NOT IN (keys)]
RECURSIVE Where(_, _)
Where(table, keys) ==
  IF table = <<>> THEN <<>>
  ELSE LET row == Head(table) IN
       IF row.DNI # SqlNull /\ row.DNI # "" /\ row.DNI \notin keys
       THEN <<row>> \o Where(Tail(table), keys)
       ELSE Where(Tail(table), keys)

\* The rows of one DNI, in the order of the table.
RECURSIVE RowsOf(_, _)
RowsOf(rows, dni) ==
  IF rows = <<>> THEN <<>>
  ELSE IF Head(rows).DNI = dni THEN <<Head(rows)>> \o RowsOf(Tail(rows), dni)
       ELSE RowsOf(Tail(rows), dni)

\* ORDER BY DNI
OrderByDni(rows) == RowsOf(rows, "A") \o RowsOf(rows, "B")

\* The result of the query of GetAll (keys = {}) or of GetAllExcept.
Query(table, keys) == OrderByDni(Where(table, keys))

\* The set of the elements of a sequence.
Range(seq) == { seq[i] : i \in 1..Len(seq) }

\* SocioRepository.GetAll on a table; fault says whether QueryContext
\* ("query") or the iteration over the rows ("rows") fails.
RepoGetAll(table, fault) ==
  IF fault = "query" THEN [socios |-> <<>>, err |-> <<"failed to query socios">>]
  ELSE IF fault = "rows"
       THEN [socios |-> <<>>, err |-> <<"error iterating over socio rows">>]
  ELSE [socios |-> GetAll(Query(table, {})), err |-> Nil]

\* Mutant of RepoGetAllExcept: the exclusion list is not put in the query.
RepoGetAllExceptNoFilter(table, excludeDNIs, fault) == RepoGetAll(table, fault)

\* SocioRepository.GetAllExcept.
RepoGetAllExcept(table, excludeDNIs, fault) ==
  IF Len(excludeDNIs) = 0 THEN RepoGetAll(table, fault)
  ELSE IF fault = "query"
       THEN [socios |-> <<>>, err |-> <<"failed to query socios excluding DNIs">>]
  ELSE IF fault = "rows"
       THEN [socios |-> <<>>, err |-> <<"error iterating over socio rows">>]
  ELSE [socios |-> SelectSeq(Query(table, Range(excludeDNIs)), Kept), err |-> Nil]

\* The loop of synchronizeSocios that fills bitrixMap: DNI -> index of the
\* item in bitrixSocios (the pointer &bitrixSocios[i]).
RECURSIVE BuildBitrixMapFrom(_, _, _)
BuildBitrixMapFrom(bs, i, m) ==
  IF i > Len(bs) THEN m
  ELSE IF bs[i].DNI # ""
       THEN BuildBitrixMapFrom(bs, i + 1,
              [d \in (DOMAIN m) \cup {bs[i].DNI} |-> IF d = bs[i].DNI THEN i ELSE m[d]])
       ELSE BuildBitrixMapFrom(bs, i + 1, m)

\* Mutant of BuildBitrixMap: every DNI is indexed to the first record.
BuildBitrixMapFirstRecord(bs) ==
  [d \in { bs[i].DNI : i \in 1..Len(bs) } \ {""} |-> 1]

BuildBitrixMap(bs) == BuildBitrixMapFrom(bs, 1, <<>>)

\* Mutant of completeResult: the report is rebuilt from scratch around the error.
completeResultReset(res, err) ==
  [res EXCEPT !.Success = FALSE, !.EndTime = TRUE, !.Duration = TRUE,
              !.SociosCreated = 0, !.SociosUpdated = 0, !.SociosSkipped = 0,
              !.Errors = IF err # Nil THEN <<err>> ELSE <<>>]

\* completeResult: the report of a run that ends with an error.
completeResult(res, err) ==
  [res EXCEPT !.Success = FALSE, !.EndTime = TRUE, !.Duration = TRUE,
              !.Errors = IF err # Nil THEN Append(@, err) ELSE @]

\* The store after crm.item.add / crm.item.update with the fields of the socio.
StoreAdd(st, socio) ==
  Append(st, [convertSageToBitrix(socio) EXCEPT !.ID = Len(st) + 1])

StoreUpdate(st, id, socio) ==
  [i \in 1..Len(st) |->
     IF st[i].ID = id THEN [convertSageToBitrix(socio) EXCEPT !.ID = id] ELSE st[i]]

\* ------------------------------------------------------ remote replies
\* What one HTTP call to the webhook gets back: a transport error
\* (transport = FALSE) or a status and a body.  A body is JSON of the shape of
\* BitrixResponse / BitrixListResponse (json = TRUE) with a null or non-null
\* result and possibly an error object, or it does not decode.  text404 says
\* that the text of the error made from the reply (URL, cause or body)
\* contains "404" or "405".
Body(json, result, errPresent, code) ==
  [json |-> json, Result |-> result, ErrPresent |-> errPresent, ErrorCode |-> code]

NoBody == Body(FALSE, "null", FALSE, "")

Reply(status, body, text404) ==
  [transport |-> TRUE, status |-> status, body |-> body, text404 |-> text404]

RespOK == Reply(200, Body(TRUE, "value", FALSE, ""), FALSE)
RespNull == Reply(200, Body(TRUE, "null", FALSE, ""), FALSE)
RespEnvelope == Reply(200, Body(TRUE, "null", TRUE, "ACCESS_DENIED"), FALSE)
RespEnvelopeNoCode == Reply(200, Body(TRUE, "null", TRUE, ""), FALSE)
RespGarbage == Reply(200, NoBody, FALSE)
RespAccepted == Reply(202, Body(TRUE, "null", TRUE, "QUERY_LIMIT_EXCEEDED"), FALSE)
RespUnauthorized == Reply(401, Body(TRUE, "null", TRUE, "NO_AUTH_FOUND"), FALSE)
RespNotFound == Reply(404, NoBody, FALSE)
RespServerError == Reply(500, Body(TRUE, "value", FALSE, ""), FALSE)
RespNetErr == [transport |-> FALSE, status |-> 0, body |-> NoBody, text404 |-> FALSE]
RespNetErr404 == [transport |-> FALSE, status |-> 0, body |-> NoBody, text404 |-> TRUE]

\* No call was made.
NoResponse == [transport |-> FALSE, status |-> -1, body |-> NoBody, text404 |-> FALSE]

\* The replies of a remote that either answers properly or is unreachable
\* (the text of the transport error may hold "404", as part of the URL).
BasicResponses == {RespOK, RespNetErr, RespNetErr404}

AllResponses ==
  {RespOK, RespNull, RespEnvelope, RespEnvelopeNoCode, RespGarbage, RespAccepted,
   RespUnauthorized, RespNotFound, RespServerError, RespNetErr, RespNetErr404}

\* Mutant of doJSONRequest: the status of the reply is not looked at.
doJSONRequestAnyStatus(r) ==
  IF ~r.transport THEN <<"failed to execute request", 0, r.text404>>
  ELSE IF ~r.body.json THEN <<"failed to decode response", 0, r.text404>>
  ELSE Nil

\* doJSONRequest: the error of a POST, <<message, status, text404>>, or Nil.
doJSONRequest(r) ==
  IF ~r.transport THEN <<"failed to execute request", 0, r.text404>>
  ELSE IF r.status # 200 THEN <<"unexpected status", r.status, r.text404>>
  ELSE IF ~r.body.json THEN <<"failed to decode response", 0, r.text404>>
  ELSE Nil

\* doGETRequest: the same steps for a GET.
doGETRequest(r) ==
  IF ~r.transport THEN <<"failed to execute request", 0, r.text404>>
  ELSE IF r.status # 200 THEN <<"unexpected status", r.status, r.text404>>
  ELSE IF ~r.body.json THEN <<"failed to decode response", 0, r.text404>>
  ELSE Nil

\* strings.Contains(err.Error(), "404") || strings.Contains(err.Error(), "405")
Contains404(err) == err[2] \in {404, 405} \/ err[3]

\* checkBitrixError on a decoded response.
checkBitrixError(body) ==
  IF body.ErrPresent /\ body.ErrorCode # ""
  THEN <<"Bitrix24 API error", body.ErrorCode>>
  ELSE Nil

\* testBasicConnection: GET "/" .
testBasicConnection(r) ==
  LET err == doGETRequest(r) IN
    IF err # Nil
    THEN IF Contains404(err) THEN Nil ELSE <<"webhook not responding">>
    ELSE Nil

\* Client.TestConnection: the probe POST /crm.item.list gets reply r1, the
\* GET of testBasicConnection (if made) gets reply r2.
ClientTestConnection(r1, r2) ==
  LET err == doJSONRequest(r1) IN
    IF err # Nil THEN testBasicConnection(r2)
    ELSE IF checkBitrixError(r1.body) # Nil THEN <<"Bitrix24 API test failed">>
    ELSE Nil

\* Mutant of ClientListSocios: a nil result is an error.
ClientListSociosNullFails(r, items) ==
  LET err == doJSONRequest(r) IN
    IF err # Nil THEN [items |-> <<>>, err |-> <<"failed to list socios">>]
    ELSE IF checkBitrixError(r.body) # Nil
         THEN [items |-> <<>>, err |-> checkBitrixError(r.body)]
    ELSE IF r.body.Result = "null" THEN [items |-> <<>>, err |-> <<"empty result">>]
    ELSE [items |-> items, err |-> Nil]

\* Client.ListSocios: items are the items of the result of the reply.
ClientListSocios(r, items) ==
  LET err == doJSONRequest(r) IN
    IF err # Nil THEN [items |-> <<>>, err |-> <<"failed to list socios">>]
    ELSE IF checkBitrixError(r.body) # Nil
         THEN [items |-> <<>>, err |-> checkBitrixError(r.body)]
    ELSE IF r.body.Result = "null" THEN [items |-> <<>>, err |-> Nil]
    ELSE [items |-> items, err |-> Nil]

\* Client.CreateSocio / Client.UpdateSocio: the error returned for a reply.
CreateSocio(r) ==
  LET err == doJSONRequest(r) IN
    IF err # Nil THEN <<"failed to create socio">>
    ELSE checkBitrixError(r.body)

UpdateSocio(r) ==
  LET err == doJSONRequest(r) IN
    IF err # Nil THEN <<"failed to update socio">>
    ELSE checkBitrixError(r.body)

\* The remote carried the request out: it answered 200 without an error object.
Applied(r) == r.transport /\ r.status = 200 /\ r.body.json /\ ~r.body.ErrPresent

\* ------------------------------------------------------------------ state
VARIABLES
  pc,           \* position of the current run in SyncSocios
  run,          \* number of runs started
  ctxDone,      \* ctx.Done() of the current run is closed
  sageDB,       \* rows the Sage query returns
  store,        \* items of the Bitrix24 store
  sageSocios,   \* snapshot returned by GetAll
  bitrixSocios, \* snapshot returned by ListSocios
  bitrixMap,    \* index of synchronizeSocios
  idx,          \* position of the loop over sageSocios
  result,       \* the SyncResult of the current run
  retErr,       \* the error returned by SyncSocios
  steps,        \* history: pre-flight steps that succeeded in this run
  log,          \* history: one entry per source record handled in this run
  prevRunClean, \* history: the run before this one ended naturally, every call succeeding
  responses,    \* the replies the remote can give
  seen,         \* history: the latest HTTP exchange of this run
  eval,         \* a function applied on its own: its name, inputs and output
  procs         \* concurrent runs: the local variables of each call of SyncSocios

vars == <<pc, run, ctxDone, sageDB, store, sageSocios, bitrixSocios, bitrixMap,
          idx, result, retErr, steps, log, prevRunClean, responses, seen, eval, procs>>

NewResult ==
  [StartTime |-> TRUE, EndTime |-> FALSE, Duration |-> FALSE,
   SociosProcessed |-> 0, SociosCreated |-> 0, SociosUpdated |-> 0,
   SociosSkipped |-> 0, Errors |-> <<>>, Success |-> FALSE]

\* The latest client call ("test", "list", "create", "update"), the position
\* of the record it was made for (0 before the loop), the reply to its POST,
\* the reply to the GET of testBasicConnection when that was made, and the
\* items the body of a reply to the list call carried.
Exchange(call, pos, r, r2, items) ==
  [call |-> call, pos |-> pos, resp |-> r, basic |-> r2, items |-> items]

NoSeen == Exchange("none", 0, NoResponse, NoResponse, <<>>)

\* The items in the body of a reply to crm.item.list.
ItemsOf(r, st) == IF r.transport /\ r.body.json /\ r.body.Result = "value" THEN st ELSE <<>>

NoEval == [fn |-> "none"]

\* No concurrent call of SyncSocios.
NoProcs == <<>>

Init ==
  /\ pc = "idle"
  /\ run = 0
  /\ ctxDone = FALSE
  /\ sageDB \in { s \in BoundedSeq(SageUniverse, MaxSage) : SortedByDni(s) }
  /\ store \in { WithIds(s) : s \in BoundedSeq(RemoteUniverse, MaxRemote) }
  /\ sageSocios = <<>>
  /\ bitrixSocios = <<>>
  /\ bitrixMap = <<>>
  /\ idx = 0
  /\ result = NewResult
  /\ retErr = Nil
  /\ steps = <<>>
  /\ log = <<>>
  /\ prevRunClean = FALSE
  /\ responses = BasicResponses
  /\ seen = NoSeen
  /\ eval = NoEval
  /\ procs = NoProcs

\* A blocking call made with a context that is already done fails
\* (net/http and database/sql return ctx.Err() before doing anything).
CallOutcomes == IF ctxDone THEN {FALSE} ELSE BOOLEAN

\* The replies an HTTP call of the client can get: with a context that is
\* already done, only the transport error of httpClient.Do.
Replies == IF ctxDone THEN { r \in responses : ~r.transport } ELSE responses

\* return s.completeResult(result, err)
Fail(err) ==
  /\ result' = completeResult(result, err)
  /\ retErr' = err
  /\ pc' = "done"

\* SyncSocios is called: the result is allocated (lines 45-51).
StartRun ==
  /\ pc \in {"idle", "done"}
  /\ run < MaxRuns
  /\ run' = run + 1
  /\ pc' = "connect"
  /\ ctxDone' = FALSE
  /\ result' = NewResult
  /\ retErr' = Nil
  /\ sageSocios' = <<>>
  /\ bitrixSocios' = <<>>
  /\ bitrixMap' = <<>>
  /\ idx' = 0
  /\ steps' = <<>>
  /\ log' = <<>>
  /\ prevRunClean' = (pc = "done" /\ retErr = Nil /\ result.Errors = <<>>)
  /\ seen' = NoSeen
  /\ UNCHANGED <<sageDB, store, responses, eval, procs>>

\* The caller's context is cancelled or its deadline passes.
Cancel ==
  /\ pc \notin {"idle", "done"}
  /\ ~ctxDone
  /\ ctxDone' = TRUE
  /\ UNCHANGED <<pc, run, sageDB, store, sageSocios, bitrixSocios, bitrixMap,
                 idx, result, retErr, steps, log, prevRunClean, responses, seen, eval, procs>>

\* Step 1: connectToSage (its ping uses a context of its own).
ConnectToSage ==
  /\ pc = "connect"
  /\ \E ok \in BOOLEAN :
       IF ok
       THEN /\ pc' = "test"
            /\ steps' = Append(steps, "connect")
            /\ UNCHANGED <<result, retErr>>
       ELSE /\ Fail(<<"failed to connect to Sage">>)
            /\ UNCHANGED steps
  /\ UNCHANGED <<run, ctxDone, sageDB, store, sageSocios, bitrixSocios, bitrixMap, idx, log,
                 prevRunClean, responses, seen, eval, procs>>

\* Mutant of TestConnection: a failed test is logged and the run goes on.
TestConnectionIgnored ==
  /\ pc = "test"
  /\ \E r1 \in Replies, r2 \in Replies :
       /\ seen' = Exchange("test", 0, r1,
                           IF doJSONRequest(r1) # Nil THEN r2 ELSE NoResponse, <<>>)
       /\ pc' = "load"
       /\ steps' = IF ClientTestConnection(r1, r2) = Nil THEN Append(steps, "test") ELSE steps
       /\ UNCHANGED <<result, retErr>>
  /\ UNCHANGED <<run, ctxDone, sageDB, store, sageSocios, bitrixSocios, bitrixMap, idx, log,
                 prevRunClean, responses, eval, procs>>

\* Step 3: bitrixClient.TestConnection(ctx).
TestConnection ==
  /\ pc = "test"
  /\ \E r1 \in Replies, r2 \in Replies :
       /\ seen' = Exchange("test", 0, r1,
                           IF doJSONRequest(r1) # Nil THEN r2 ELSE NoResponse, <<>>)
       /\ IF ClientTestConnection(r1, r2) = Nil
          THEN /\ pc' = "load"
               /\ steps' = Append(steps, "test")
               /\ UNCHANGED <<result, retErr>>
          ELSE /\ Fail(<<"failed to connect to Bitrix24">>)
               /\ UNCHANGED steps
  /\ UNCHANGED <<run, ctxDone, sageDB, store, sageSocios, bitrixSocios, bitrixMap, idx, log,
                 prevRunClean, responses, eval, procs>>

\* Mutant of GetSageSocios: SociosProcessed is set as soon as the source is loaded.
GetSageSociosCounted ==
  /\ pc = "load"
  /\ \E ok \in CallOutcomes :
       IF ok
       THEN /\ sageSocios' = GetAll(sageDB)
            /\ result' = [result EXCEPT !.SociosProcessed = Len(GetAll(sageDB))]
            /\ pc' = "list"
            /\ steps' = Append(steps, "load")
            /\ UNCHANGED retErr
       ELSE /\ Fail(<<"failed to fetch socios from Sage">>)
            /\ UNCHANGED <<sageSocios, steps>>
  /\ UNCHANGED <<run, ctxDone, sageDB, store, bitrixSocios, bitrixMap, idx, log,
                 prevRunClean, responses, seen, eval, procs>>

\* Step 4: socioRepo.GetAll(ctx); it fails when QueryContext or the
\* iteration over the rows fails.
GetSageSocios ==
  /\ pc = "load"
  /\ \E ok \in CallOutcomes :
       IF ok
       THEN /\ sageSocios' = GetAll(sageDB)
            /\ pc' = "list"
            /\ steps' = Append(steps, "load")
            /\ UNCHANGED <<result, retErr>>
       ELSE /\ Fail(<<"failed to fetch socios from Sage">>)
            /\ UNCHANGED <<sageSocios, steps>>
  /\ UNCHANGED <<run, ctxDone, sageDB, store, bitrixSocios, bitrixMap, idx, log,
                 prevRunClean, responses, seen, eval, procs>>

\* Step 5: bitrixClient.ListSocios(ctx); on success step 6 sets
\* SociosProcessed and synchronizeSocios builds its index.
ListSocios ==
  /\ pc = "list"
  /\ \E r \in Replies :
       LET listed == ClientListSocios(r, ItemsOf(r, store)) IN
       /\ seen' = Exchange("list", 0, r, NoResponse, ItemsOf(r, store))
       /\ IF listed.err = Nil
          THEN /\ bitrixSocios' = listed.items
               /\ bitrixMap' = BuildBitrixMap(listed.items)
               /\ result' = [result EXCEPT !.SociosProcessed = Len(sageSocios)]
               /\ idx' = 1
               /\ pc' = "loop"
               /\ steps' = Append(steps, "list")
               /\ UNCHANGED retErr
          ELSE /\ Fail(<<"failed to fetch socios from Bitrix24">>)
               /\ UNCHANGED <<bitrixSocios, bitrixMap, idx, steps>>
  /\ UNCHANGED <<run, ctxDone, sageDB, store, sageSocios, log, prevRunClean,
                 responses, eval, procs>>

\* Mutant of isEmptyDNI: the guard of line 118 is missing.
isEmptyDNINever(sageSocio) == FALSE

\* if sageSocio.DNI == "" (line 118)
isEmptyDNI(sageSocio) == sageSocio.DNI = ""

\* Mutant of Classify: a DNI created earlier in the run counts as present.
ClassifyDeduped(sageSocio) ==
  IF sageSocio.DNI = "" THEN "skip"
  ELSE IF sageSocio.DNI \in DOMAIN bitrixMap
       THEN IF NeedsUpdate(bitrixSocios[bitrixMap[sageSocio.DNI]], sageSocio)
            THEN "update" ELSE "skip"
       ELSE IF \E i \in 1..Len(store) : store[i].DNI = sageSocio.DNI
            THEN "skip" ELSE "create"

\* Mutant of Classify: a create of this run enters the index, so a later
\* record of the same DNI is no longer created.
ClassifyIndexGrows(sageSocio) ==
  IF sageSocio.DNI = "" THEN "skip"
  ELSE IF sageSocio.DNI \in DOMAIN bitrixMap
       THEN IF NeedsUpdate(bitrixSocios[bitrixMap[sageSocio.DNI]], sageSocio)
            THEN "update" ELSE "skip"
       ELSE IF \E k \in 1..Len(log) :
                 log[k].action = "create" /\ log[k].ok /\ log[k].dni = sageSocio.DNI
            THEN "skip" ELSE "create"

\* The action synchronizeSocios chooses for a source record.
Classify(sageSocio) ==
  IF isEmptyDNI(sageSocio) THEN "skip"
  ELSE IF sageSocio.DNI \in DOMAIN bitrixMap
       THEN IF NeedsUpdate(bitrixSocios[bitrixMap[sageSocio.DNI]], sageSocio)
            THEN "update" ELSE "skip"
       ELSE "create"

\* Mutant of continueLoop: the record that failed is attempted again.
continueLoopRetry ==
  /\ idx' = idx
  /\ pc' = "loop"

\* `continue`: straight to the next record.
continueLoop ==
  /\ idx' = idx + 1
  /\ pc' = "loop"

\* Falling through to the select on ctx.Done() at the end of the loop body.
toSelect ==
  /\ idx' = idx
  /\ pc' = "check"

\* Mutant of recordFailure: the newest message is put first.
recordFailurePrepend(res, op, dni) ==
  [res EXCEPT !.Errors = << <<op, dni>> >> \o @]

\* Mutant of recordFailure: the counter is incremented before the error check.
recordFailureCounted(res, op, dni) ==
  [res EXCEPT !.Errors = Append(@, <<op, dni>>), !.SociosCreated = @ + 1]

\* Mutant of recordFailure: the failure leaves no message.
recordFailureDropped(res, op, dni) == res

\* A failed CreateSocio / UpdateSocio: the message is appended to Errors.
recordFailure(res, op, dni) ==
  [res EXCEPT !.Errors = Append(@, <<op, dni>>)]

LogEntry(sageSocio, action, id, ok, done) ==
  [pos |-> idx, dni |-> sageSocio.DNI, action |-> action, id |-> id, ok |-> ok,
   ctxDone |-> done]

\* One iteration of the loop of synchronizeSocios, up to its `continue` or
\* to the select on ctx.Done().
ProcessRecord ==
  /\ pc = "loop"
  /\ idx <= Len(sageSocios)
  /\ LET sageSocio == sageSocios[idx]
         action == Classify(sageSocio)
     IN
       IF isEmptyDNI(sageSocio)
       THEN /\ result' = [result EXCEPT !.SociosSkipped = @ + 1]
            /\ log' = Append(log, LogEntry(sageSocio, "skip", 0, TRUE, ctxDone))
            /\ continueLoop
            /\ UNCHANGED <<store, seen>>
       ELSE IF action = "update"
       THEN LET bitrixSocio == bitrixSocios[bitrixMap[sageSocio.DNI]] IN
            \E r \in Replies :
              /\ seen' = Exchange("update", idx, r, NoResponse, <<>>)
              /\ IF UpdateSocio(r) = Nil
                 THEN /\ store' = IF Applied(r)
                                  THEN StoreUpdate(store, bitrixSocio.ID, sageSocio)
                                  ELSE store
                      /\ result' = [result EXCEPT !.SociosUpdated = @ + 1]
                      /\ log' = Append(log, LogEntry(sageSocio, "update", bitrixSocio.ID, TRUE, FALSE))
                      /\ toSelect
                 ELSE /\ result' = recordFailure(result, "Failed to update socio", sageSocio.DNI)
                      /\ log' = Append(log, LogEntry(sageSocio, "update", bitrixSocio.ID, FALSE, ctxDone))
                      /\ continueLoop
                      /\ UNCHANGED store
       ELSE IF action = "skip"
       THEN /\ result' = [result EXCEPT !.SociosSkipped = @ + 1]
            /\ log' = Append(log, LogEntry(sageSocio, "skip", 0, TRUE, FALSE))
            /\ toSelect
            /\ UNCHANGED <<store, seen>>
       ELSE \E r \in Replies :
              /\ seen' = Exchange("create", idx, r, NoResponse, <<>>)
              /\ IF CreateSocio(r) = Nil
                 THEN /\ store' = IF Applied(r) THEN StoreAdd(store, sageSocio) ELSE store
                      /\ result' = [result EXCEPT !.SociosCreated = @ + 1]
                      /\ log' = Append(log, LogEntry(sageSocio, "create", 0, TRUE, FALSE))
                      /\ toSelect
                 ELSE /\ result' = recordFailure(result, "Failed to create socio", sageSocio.DNI)
                      /\ log' = Append(log, LogEntry(sageSocio, "create", 0, FALSE, ctxDone))
                      /\ continueLoop
                      /\ UNCHANGED store
  /\ UNCHANGED <<run, ctxDone, sageDB, sageSocios, bitrixSocios, bitrixMap, retErr,
                 steps, prevRunClean, responses, eval, procs>>

\* The select on ctx.Done() at the end of the loop body (lines 159-165).
CheckCancel ==
  /\ pc = "check"
  /\ log' = [log EXCEPT ![Len(log)].ctxDone = ctxDone]
  /\ IF ctxDone
     THEN /\ Fail(<<"sync cancelled">>)
          /\ UNCHANGED idx
     ELSE /\ idx' = idx + 1
          /\ pc' = "loop"
          /\ UNCHANGED <<result, retErr>>
  /\ UNCHANGED <<run, ctxDone, sageDB, store, sageSocios, bitrixSocios, bitrixMap, steps,
                 prevRunClean, responses, seen, eval, procs>>

\* Mutant of Complete: per-record errors make the run unsuccessful.
CompleteStrict ==
  /\ pc = "loop"
  /\ idx > Len(sageSocios)
  /\ result' = [result EXCEPT !.Success = (result.Errors = <<>>), !.EndTime = TRUE,
                               !.Duration = TRUE]
  /\ retErr' = Nil
  /\ pc' = "done"
  /\ UNCHANGED <<run, ctxDone, sageDB, store, sageSocios, bitrixSocios, bitrixMap,
                 idx, steps, log, prevRunClean, responses, seen, eval, procs>>

\* Step 7: the loop is over, synchronizeSocios returned nil.
Complete ==
  /\ pc = "loop"
  /\ idx > Len(sageSocios)
  /\ result' = [result EXCEPT !.Success = TRUE, !.EndTime = TRUE, !.Duration = TRUE]
  /\ retErr' = Nil
  /\ pc' = "done"
  /\ UNCHANGED <<run, ctxDone, sageDB, store, sageSocios, bitrixSocios, bitrixMap,
                 idx, steps, log, prevRunClean, responses, seen, eval, procs>>

Next ==
  \/ StartRun
  \/ Cancel
  \/ ConnectToSage
  \/ TestConnection
  \/ GetSageSocios
  \/ ListSocios
  \/ ProcessRecord
  \/ CheckCancel
  \/ Complete

Spec == Init /\ [][Next]_vars

\* -------------------------------------------- a remote that can give any reply
InitHttp ==
  /\ pc = "idle"
  /\ run = 0
  /\ ctxDone = FALSE
  /\ sageDB \in { s \in BoundedSeq(SageUniverse, MaxHttpSage) : SortedByDni(s) }
  /\ store \in { WithIds(s) : s \in BoundedSeq(RemoteUniverse, MaxHttpRemote) }
  /\ sageSocios = <<>>
  /\ bitrixSocios = <<>>
  /\ bitrixMap = <<>>
  /\ idx = 0
  /\ result = NewResult
  /\ retErr = Nil
  /\ steps = <<>>
  /\ log = <<>>
  /\ prevRunClean = FALSE
  /\ responses = AllResponses
  /\ seen = NoSeen
  /\ eval = NoEval
  /\ procs = NoProcs

SpecHttp == InitHttp /\ [][Next]_vars

\* ------------------------------------------------ rows that fail to scan
\* Rows of the query result; two of them hold a NULL and do not scan.
ScanRowUniverse ==
  { [DNI |-> "A", Administrador |-> TRUE, CargoAdministrador |-> "Director",
     PorParticipacion |-> 1250, RazonSocialEmpleado |-> "Acme"],
    [DNI |-> "A", Administrador |-> FALSE, CargoAdministrador |-> SqlNull,
     PorParticipacion |-> 0, RazonSocialEmpleado |-> "Acme"],
    [DNI |-> "B", Administrador |-> FALSE, CargoAdministrador |-> "",
     PorParticipacion |-> 10000, RazonSocialEmpleado |-> "Beta"],
    [DNI |-> "B", Administrador |-> FALSE, CargoAdministrador |-> "",
     PorParticipacion |-> 10000, RazonSocialEmpleado |-> SqlNull] }

InitRows ==
  /\ pc = "idle"
  /\ run = 0
  /\ ctxDone = FALSE
  /\ sageDB \in { s \in BoundedSeq(ScanRowUniverse, MaxScanRows) : SortedByDni(s) }
  /\ store \in { WithIds(s) : s \in BoundedSeq(RemoteUniverse, MaxHttpRemote) }
  /\ sageSocios = <<>>
  /\ bitrixSocios = <<>>
  /\ bitrixMap = <<>>
  /\ idx = 0
  /\ result = NewResult
  /\ retErr = Nil
  /\ steps = <<>>
  /\ log = <<>>
  /\ prevRunClean = FALSE
  /\ responses = BasicResponses
  /\ seen = NoSeen
  /\ eval = NoEval
  /\ procs = NoProcs

SpecRows == InitRows /\ [][Next]_vars

\* ------------------------------------- synchronizeSocios entered directly
\* synchronizeSocios takes its two snapshots as arguments; GetAll never
\* returns a record with an empty DNI, a caller inside the package can pass one.
EmptyDniSocio ==
  [DNI |-> "", Administrador |-> TRUE, CargoAdministrador |-> "Socio",
   PorParticipacion |-> 500, RazonSocialEmpleado |-> "Ghost"]

DirectUniverse == SageUniverse \cup {EmptyDniSocio}

\* The first run starts inside synchronizeSocios (the index is built, the
\* loop is at its first record); later runs are whole SyncSocios runs.
InitDirect ==
  /\ pc = "loop"
  /\ run = 1
  /\ ctxDone = FALSE
  /\ sageDB \in { s \in BoundedSeq(SageUniverse, 1) : SortedByDni(s) }
  /\ store \in { WithIds(s) : s \in BoundedSeq(RemoteUniverse, MaxRemote) }
  /\ sageSocios \in BoundedSeq(DirectUniverse, MaxDirect)
  /\ bitrixSocios = store
  /\ bitrixMap = BuildBitrixMap(store)
  /\ idx = 1
  /\ result = [NewResult EXCEPT !.SociosProcessed = Len(sageSocios)]
  /\ retErr = Nil
  /\ steps = <<>>
  /\ log = <<>>
  /\ prevRunClean = FALSE
  /\ responses = BasicResponses
  /\ seen = NoSeen
  /\ eval = NoEval
  /\ procs = NoProcs

SpecDirect == InitDirect /\ [][Next]_vars

\* ------------------------------------------------- two concurrent runs
\* Two goroutines call SyncSocios on one Service, with the configuration of
\* one company: they read the same Sage table and the same Bitrix24 store.
\* Their contexts are not cancelled, so the select on ctx.Done() always takes
\* its default branch.
Procs == {1, 2}

\* The local variables of a call of SyncSocios before its first statement.
NewLocal ==
  [pc |-> "start", db |-> 0, client |-> 0, sageSocios |-> <<>>,
   bitrixSocios |-> <<>>, bitrixMap |-> <<>>, idx |-> 0, result |-> NewResult,
   retErr |-> Nil, log |-> <<>>]

\* Mutant of ResultOf: the SyncResult is kept in the Service.
ResultOfService(p) == 1

\* result := &SyncResult{...}: the report a call writes to is its own.
ResultOf(p) == p

\* The action of synchronizeSocios for a record, given the snapshot and the
\* index of the call.
ClassifyWith(bs, m, sageSocio) ==
  IF isEmptyDNI(sageSocio) THEN "skip"
  ELSE IF sageSocio.DNI \in DOMAIN m
       THEN IF NeedsUpdate(bs[m[sageSocio.DNI]], sageSocio) THEN "update" ELSE "skip"
       ELSE "create"

\* return s.completeResult(result, err)
ConcFail(p, err) ==
  procs' = [procs EXCEPT ![p].pc = "done", ![p].retErr = err,
                         ![ResultOf(p)].result = completeResult(@, err)]

InitConc ==
  /\ pc = "conc"
  /\ run = 0
  /\ ctxDone = FALSE
  /\ sageDB \in { s \in BoundedSeq(SageUniverse, MaxConcSage) : SortedByDni(s) }
  /\ store \in { WithIds(s) : s \in BoundedSeq(RemoteUniverse, MaxConcRemote) }
  /\ sageSocios = <<>>
  /\ bitrixSocios = <<>>
  /\ bitrixMap = <<>>
  /\ idx = 0
  /\ result = NewResult
  /\ retErr = Nil
  /\ steps = <<>>
  /\ log = <<>>
  /\ prevRunClean = FALSE
  /\ responses = {RespOK, RespNetErr}
  /\ seen = NoSeen
  /\ eval = NoEval
  /\ procs = [p \in Procs |-> NewLocal]

concIdle == <<pc, run, ctxDone, sageDB, sageSocios, bitrixSocios, bitrixMap, idx,
              result, retErr, steps, log, prevRunClean, responses, seen, eval>>

\* Step 1: connectToSage opens a connection pool for this call.
ConcConnect(p) ==
  /\ procs[p].pc = "start"
  /\ \E ok \in BOOLEAN :
       IF ok THEN procs' = [procs EXCEPT ![p].pc = "test", ![p].db = p]
       ELSE ConcFail(p, <<"failed to connect to Sage">>)
  /\ UNCHANGED <<concIdle, store>>

\* Steps 2 and 3: NewSocioRepository, NewClient, TestConnection.
ConcTestConnection(p) ==
  /\ procs[p].pc = "test"
  /\ \E r1 \in responses, r2 \in responses :
       IF ClientTestConnection(r1, r2) = Nil
       THEN procs' = [procs EXCEPT ![p].pc = "load", ![p].client = p]
       ELSE ConcFail(p, <<"failed to connect to Bitrix24">>)
  /\ UNCHANGED <<concIdle, store>>

\* Step 4: socioRepo.GetAll(ctx).
ConcGetSageSocios(p) ==
  /\ procs[p].pc = "load"
  /\ \E ok \in BOOLEAN :
       IF ok THEN procs' = [procs EXCEPT ![p].pc = "list", ![p].sageSocios = GetAll(sageDB)]
       ELSE ConcFail(p, <<"failed to fetch socios from Sage">>)
  /\ UNCHANGED <<concIdle, store>>

\* Steps 5 and 6: ListSocios, SociosProcessed, the index of synchronizeSocios.
ConcListSocios(p) ==
  /\ procs[p].pc = "list"
  /\ \E r \in responses :
       LET listed == ClientListSocios(r, ItemsOf(r, store)) IN
         IF listed.err = Nil
         THEN procs' = [procs EXCEPT
                ![p].pc = "loop", ![p].idx = 1,
                ![p].bitrixSocios = listed.items,
                ![p].bitrixMap = BuildBitrixMap(listed.items),
                ![ResultOf(p)].result =
                   [@ EXCEPT !.SociosProcessed = Len(procs[p].sageSocios)]]
         ELSE ConcFail(p, <<"failed to fetch socios from Bitrix24">>)
  /\ UNCHANGED <<concIdle, store>>

ConcEntry(sageSocio, action, ok) ==
  [dni |-> sageSocio.DNI, action |-> action, ok |-> ok]

\* One iteration of the loop of synchronizeSocios.
ConcProcessRecord(p) ==
  /\ procs[p].pc = "loop"
  /\ procs[p].idx <= Len(procs[p].sageSocios)
  /\ LET l == procs[p]
         sageSocio == l.sageSocios[l.idx]
         action == ClassifyWith(l.bitrixSocios, l.bitrixMap, sageSocio)
     IN
       IF action = "skip"
       THEN /\ procs' = [procs EXCEPT
                   ![p].idx = @ + 1,
                   ![p].log = Append(@, ConcEntry(sageSocio, "skip", TRUE)),
                   ![ResultOf(p)].result = [@ EXCEPT !.SociosSkipped = @ + 1]]
            /\ UNCHANGED store
       ELSE IF action = "update"
       THEN LET bitrixSocio == l.bitrixSocios[l.bitrixMap[sageSocio.DNI]] IN
            \E r \in responses :
              IF UpdateSocio(r) = Nil
              THEN /\ store' = IF Applied(r)
                               THEN StoreUpdate(store, bitrixSocio.ID, sageSocio)
                               ELSE store
                   /\ procs' = [procs EXCEPT
                          ![p].idx = @ + 1,
                          ![p].log = Append(@, ConcEntry(sageSocio, "update", TRUE)),
                          ![ResultOf(p)].result = [@ EXCEPT !.SociosUpdated = @ + 1]]
              ELSE /\ procs' = [procs EXCEPT
                          ![p].idx = @ + 1,
                          ![p].log = Append(@, ConcEntry(sageSocio, "update", FALSE)),
                          ![ResultOf(p)].result =
                             recordFailure(@, "Failed to update socio", sageSocio.DNI)]
                   /\ UNCHANGED store
       ELSE \E r \in responses :
              IF CreateSocio(r) = Nil
              THEN /\ store' = IF Applied(r) THEN StoreAdd(store, sageSocio) ELSE store
                   /\ procs' = [procs EXCEPT
                          ![p].idx = @ + 1,
                          ![p].log = Append(@, ConcEntry(sageSocio, "create", TRUE)),
                          ![ResultOf(p)].result = [@ EXCEPT !.SociosCreated = @ + 1]]
              ELSE /\ procs' = [procs EXCEPT
                          ![p].idx = @ + 1,
                          ![p].log = Append(@, ConcEntry(sageSocio, "create", FALSE)),
                          ![ResultOf(p)].result =
                             recordFailure(@, "Failed to create socio", sageSocio.DNI)]
                   /\ UNCHANGED store
  /\ UNCHANGED concIdle

\* Step 7: the loop is over, synchronizeSocios returned nil.
ConcComplete(p) ==
  /\ procs[p].pc = "loop"
  /\ procs[p].idx > Len(procs[p].sageSocios)
  /\ procs' = [procs EXCEPT
         ![p].pc = "done",
         ![ResultOf(p)].result =
            [@ EXCEPT !.Success = TRUE, !.EndTime = TRUE, !.Duration = TRUE]]
  /\ UNCHANGED <<concIdle, store>>

NextConc ==
  \E p \in Procs :
    \/ ConcConnect(p)
    \/ ConcTestConnection(p)
    \/ ConcGetSageSocios(p)
    \/ ConcListSocios(p)
    \/ ConcProcessRecord(p)
    \/ ConcComplete(p)

SpecConc == InitConc /\ [][NextConc]_vars

\* ------------------------------------------- functions applied on their own
\* No run is in progress: only eval (and, for the classification, the two
\* snapshots and the index) changes.
NoRun ==
  /\ pc = "eval"
  /\ run = 0
  /\ ctxDone = FALSE
  /\ sageDB = <<>>
  /\ store = <<>>
  /\ idx = 0
  /\ result = NewResult
  /\ retErr = Nil
  /\ steps = <<>>
  /\ log = <<>>
  /\ prevRunClean = FALSE
  /\ responses = BasicResponses
  /\ seen = NoSeen
  /\ procs = NoProcs

runVars == <<pc, run, ctxDone, sageDB, store, idx, result, retErr, steps, log,
             prevRunClean, responses, seen, procs>>

\* models.Socio values, with and without DNI, cargo and name.
SocioInputs ==
  [DNI : {"", "A", "B"}, Administrador : BOOLEAN,
   CargoAdministrador : {"", "Director"}, PorParticipacion : {0, 1250, 10000},
   RazonSocialEmpleado : {"", "Acme"}]

\* BitrixSocio values as the list call can return them.
BitrixInputs ==
  [ID : {1, 2}, Title : {"Acme", "A"}, DNI : {"A", "B"},
   Cargo : {"Old", "Director", "No especificado"}, Administrador : {"Y", "N"},
   Participacion : {<<12, 5, 0>>, <<12, 5>>, <<0, 0, 0>>},
   RazonSocialEmpleado : {"", "Acme"}]

\* --- convertSageToBitrix and NeedsUpdate
InitPure ==
  /\ NoRun
  /\ sageSocios = <<>>
  /\ bitrixSocios = <<>>
  /\ bitrixMap = <<>>
  /\ eval \in [fn : {"input"}, socio : SocioInputs, remote : BitrixInputs]

ApplyConvert ==
  /\ eval.fn = "input"
  /\ eval' = [fn |-> "convertSageToBitrix", socio |-> eval.socio,
              out |-> convertSageToBitrix(eval.socio)]
  /\ UNCHANGED <<runVars, sageSocios, bitrixSocios, bitrixMap>>

ApplyNeedsUpdate ==
  /\ eval.fn = "input"
  /\ eval' = [fn |-> "NeedsUpdate", socio |-> eval.socio, remote |-> eval.remote,
              out |-> NeedsUpdate(eval.remote, eval.socio)]
  /\ UNCHANGED <<runVars, sageSocios, bitrixSocios, bitrixMap>>

\* NeedsUpdate applied again after the title, id and DNI of the remote record
\* were replaced.
ApplyNeedsUpdateChanged ==
  /\ eval.fn = "NeedsUpdate"
  /\ \E t \in {"Acme", "A"}, i \in {1, 2}, d \in {"A", "B"} :
       LET changed == [eval.remote EXCEPT !.Title = t, !.ID = i, !.DNI = d] IN
         /\ changed # eval.remote
         /\ eval' = [fn |-> "NeedsUpdateChanged", socio |-> eval.socio,
                     remote |-> changed, before |-> eval.out,
                     out |-> NeedsUpdate(changed, eval.socio)]
  /\ UNCHANGED <<runVars, sageSocios, bitrixSocios, bitrixMap>>

NextPure == ApplyConvert \/ ApplyNeedsUpdate \/ ApplyNeedsUpdateChanged

SpecPure == InitPure /\ [][NextPure]_vars

\* --- the two copies of the entity model
ApplyBothConversions ==
  /\ eval.fn = "input"
  /\ eval' = [fn |-> "FromSageSocio", socio |-> eval.socio,
              models |-> FromSageSocio(eval.socio),
              client |-> convertSageToBitrix(eval.socio)]
  /\ UNCHANGED <<runVars, sageSocios, bitrixSocios, bitrixMap>>

ApplyBothNeedsUpdate ==
  /\ eval.fn = "input"
  /\ eval' = [fn |-> "ModelsNeedsUpdate", socio |-> eval.socio, remote |-> eval.remote,
              models |-> ModelsNeedsUpdate(eval.remote, eval.socio),
              client |-> NeedsUpdate(eval.remote, eval.socio)]
  /\ UNCHANGED <<runVars, sageSocios, bitrixSocios, bitrixMap>>

NextModels == ApplyBothConversions \/ ApplyBothNeedsUpdate

SpecModels == InitPure /\ [][NextModels]_vars

\* --- GetAll and GetAllExcept
\* Rows of the Socios table: with and without DNI, with a NULL column, and
\* two rows of one DNI.
TableUniverse ==
  { [DNI |-> "A", Administrador |-> TRUE, CargoAdministrador |-> "Director",
     PorParticipacion |-> 1250, RazonSocialEmpleado |-> "Acme"],
    [DNI |-> "A", Administrador |-> FALSE, CargoAdministrador |-> "",
     PorParticipacion |-> 0, RazonSocialEmpleado |-> ""],
    [DNI |-> "B", Administrador |-> FALSE, CargoAdministrador |-> "",
     PorParticipacion |-> 10000, RazonSocialEmpleado |-> "Beta"],
    [DNI |-> "B", Administrador |-> FALSE, CargoAdministrador |-> SqlNull,
     PorParticipacion |-> 10000, RazonSocialEmpleado |-> "Beta"],
    [DNI |-> "", Administrador |-> FALSE, CargoAdministrador |-> "",
     PorParticipacion |-> 0, RazonSocialEmpleado |-> "Gamma"],
    [DNI |-> SqlNull, Administrador |-> FALSE, CargoAdministrador |-> "",
     PorParticipacion |-> 0, RazonSocialEmpleado |-> "Gamma"] }

Faults == {"none", "query", "rows"}

\* The table is in any order; the two calls read the same table.
InitRepo ==
  /\ NoRun
  /\ sageSocios = <<>>
  /\ bitrixSocios = <<>>
  /\ bitrixMap = <<>>
  /\ eval \in [fn : {"input"}, table : BoundedSeq(TableUniverse, MaxTable),
                excludeDNIs : BoundedSeq({"A", "B"}, MaxKeys), fault : Faults]

ApplyGetAll ==
  /\ eval.fn = "input"
  /\ eval' = [fn |-> "GetAll", table |-> eval.table, fault |-> eval.fault,
              out |-> RepoGetAll(eval.table, eval.fault)]
  /\ UNCHANGED <<runVars, sageSocios, bitrixSocios, bitrixMap>>

ApplyGetAllExcept ==
  /\ eval.fn = "input"
  /\ eval' = [fn |-> "GetAllExcept", table |-> eval.table,
              excludeDNIs |-> eval.excludeDNIs, fault |-> eval.fault,
              out |-> RepoGetAllExcept(eval.table, eval.excludeDNIs, eval.fault)]
  /\ UNCHANGED <<runVars, sageSocios, bitrixSocios, bitrixMap>>

NextRepo == ApplyGetAll \/ ApplyGetAllExcept

SpecRepo == InitRepo /\ [][NextRepo]_vars

\* --- formatFloat
MaxPct == 10000   \* 100.00 per cent, in hundredths

\* Pairs of percentages near each other, near a round value, or far apart.
InitFormat ==
  /\ NoRun
  /\ sageSocios = <<>>
  /\ bitrixSocios = <<>>
  /\ bitrixMap = <<>>
  /\ \E f \in 0..MaxPct :
       \E g \in {f, (f + 1) % (MaxPct + 1), (f + 10) % (MaxPct + 1),
                  (f + 100) % (MaxPct + 1), MaxPct - f} :
         eval = [fn |-> "input", f |-> f, g |-> g]

ApplyFormatFloat ==
  /\ eval.fn = "input"
  /\ eval' = [fn |-> "formatFloat", f |-> eval.f, g |-> eval.g,
              outf |-> formatFloat(eval.f), outg |-> formatFloat(eval.g)]
  /\ UNCHANGED <<runVars, sageSocios, bitrixSocios, bitrixMap>>

NextFormat == ApplyFormatFloat

SpecFormat == InitFormat /\ [][NextFormat]_vars

\* --- classification before and after a create
\* One valid source record and a remote snapshot with its index.
InitMatch ==
  /\ NoRun
  /\ sageSocios \in { <<socio>> : socio \in { x \in SocioInputs : IsValid(x) } }
  /\ bitrixSocios \in { WithIds(b) : b \in BoundedSeq(RemoteUniverse, MaxRemote) }
  /\ bitrixMap = BuildBitrixMap(bitrixSocios)
  /\ eval = [fn |-> "input"]

ApplyNeedsUpdateMapped ==
  /\ eval.fn = "input"
  /\ eval' = [fn |-> "NeedsUpdateMapped",
              out |-> NeedsUpdate(convertSageToBitrix(sageSocios[1]), sageSocios[1])]
  /\ UNCHANGED <<runVars, sageSocios, bitrixSocios, bitrixMap>>

ApplyClassify ==
  /\ eval.fn = "input"
  /\ eval' = [fn |-> "Classify", out |-> Classify(sageSocios[1])]
  /\ UNCHANGED <<runVars, sageSocios, bitrixSocios, bitrixMap>>

\* The create succeeded: the mapped record is in the next snapshot.
AddMapped ==
  /\ eval.fn = "Classify"
  /\ eval.out = "create"
  /\ bitrixSocios' = StoreAdd(bitrixSocios, sageSocios[1])
  /\ bitrixMap' = BuildBitrixMap(bitrixSocios')
  /\ eval' = [fn |-> "added"]
  /\ UNCHANGED <<runVars, sageSocios>>

ApplyClassifyAgain ==
  /\ eval.fn = "added"
  /\ eval' = [fn |-> "ClassifyAgain", out |-> Classify(sageSocios[1])]
  /\ UNCHANGED <<runVars, sageSocios, bitrixSocios, bitrixMap>>

NextMatch == ApplyNeedsUpdateMapped \/ ApplyClassify \/ AddMapped \/ ApplyClassifyAgain

SpecMatch == InitMatch /\ [][NextMatch]_vars

\* ------------------------------------------------------------ properties
PreflightSteps == <<"connect", "test", "load", "list">>

PreflightErrors ==
  << <<"failed to connect to Sage">>, <<"failed to connect to Bitrix24">>,
     <<"failed to fetch socios from Sage">>, <<"failed to fetch socios from Bitrix24">> >>

CancelError == <<"sync cancelled">>

IsCall(e) == e.action \in {"create", "update"}

OkCalls(a) == { k \in 1..Len(log) : log[k].action = a /\ log[k].ok }

FailedCalls == { k \in 1..Len(log) : IsCall(log[k]) /\ ~log[k].ok }

Skips == { k \in 1..Len(log) : log[k].action = "skip" }

\* The per-record messages of the failed calls of the log, in order.
RECURSIVE ErrorsOfLog(_)
ErrorsOfLog(l) ==
  IF l = <<>> THEN <<>>
  ELSE LET e == l[Len(l)]
           rest == ErrorsOfLog(SubSeq(l, 1, Len(l) - 1))
       IN IF IsCall(e) /\ ~e.ok
          THEN Append(rest, << IF e.action = "create" THEN "Failed to create socio"
                                ELSE "Failed to update socio", e.dni >>)
          ELSE rest

\* The select on ctx.Done() found the context done after the last record handled.
CancelObserved ==
  /\ log # <<>>
  /\ log[Len(log)].ok
  /\ log[Len(log)].dni # ""
  /\ log[Len(log)].ctxDone

\* C1: in a run that is not cancelled a failed create or update never aborts
\* the run: while the loop runs and at its end, the errors of the report are
\* exactly the messages of the failed calls (one each, in order), created and
\* updated count exactly the successful calls, and the run ends naturally with
\* every record of the snapshot handled, processed = snapshot size and
\* success = true.
C1_FailedCallNeverAborts ==
  /\ pc \in {"loop", "check"} =>
       /\ result.Errors = ErrorsOfLog(log)
       /\ result.SociosCreated = Cardinality(OkCalls("create"))
       /\ result.SociosUpdated = Cardinality(OkCalls("update"))
       /\ result.SociosSkipped = Cardinality(Skips)
  /\ (pc = "done" /\ steps = PreflightSteps /\ ~ctxDone) =>
       /\ retErr = Nil
       /\ result.Success
       /\ Len(log) = Len(sageSocios)
       /\ \A k \in 1..Len(log) : log[k].pos = k
       /\ result.SociosProcessed = Len(sageSocios)
       /\ result.SociosCreated + result.SociosUpdated
            = Cardinality(OkCalls("create") \cup OkCalls("update"))
       /\ Len(result.Errors) = Cardinality(FailedCalls)
       /\ result.Errors = ErrorsOfLog(log)

\* A run over 3 records that was not cancelled ended after one failed create
\* followed by a successful create of a later record: processed = 3,
\* created = 2, one error, success = true.
C1_Witness ==
  /\ pc = "done" /\ ~ctxDone /\ result.Success
  /\ \E k \in 1..(Len(log) - 1) :
       /\ log[k].action = "create" /\ ~log[k].ok
       /\ log[k + 1].action = "create" /\ log[k + 1].ok
  /\ result.SociosProcessed = 3
  /\ result.SociosCreated = 2
  /\ Len(result.Errors) = 1

\* C2: success is true exactly when the run reached its natural end (the four
\* pre-flight steps succeeded and the loop went over the whole snapshot
\* without the select finding the context done), exactly when the returned
\* error is nil; per-record errors do not make it false.
C2_SuccessIffNaturalEnd ==
  /\ pc # "done" => ~result.Success
  /\ pc = "done" =>
       /\ result.Success <=> (retErr = Nil)
       /\ result.Success <=>
            (/\ steps = PreflightSteps
             /\ Len(log) = Len(sageSocios)
             /\ ~CancelObserved)
       /\ result.EndTime /\ result.Duration

\* A run ended with success = true although a create or update failed.
C2_Witness ==
  /\ pc = "done" /\ result.Success /\ retErr = Nil
  /\ result.Errors # <<>>

\* C3: when a pre-flight step fails the report is still returned with the
\* error: success = false, end time and duration set, processed = 0, created,
\* updated and skipped 0, and errors holding exactly the triggering failure.
C3_PreflightFailureReport ==
  (pc = "done" /\ steps # PreflightSteps) =>
    /\ retErr = PreflightErrors[Len(steps) + 1]
    /\ ~result.Success
    /\ result.EndTime /\ result.Duration
    /\ result.SociosProcessed = 0
    /\ result.SociosCreated = 0 /\ result.SociosUpdated = 0 /\ result.SociosSkipped = 0
    /\ result.Errors = <<retErr>>

\* ListSocios failed after a source snapshot with records was loaded.
C3_Witness ==
  /\ pc = "done"
  /\ steps = <<"connect", "test", "load">>
  /\ sageSocios # <<>>
  /\ result.Errors = << <<"failed to fetch socios from Bitrix24">> >>

\* C4: a create or update call is issued only after the source connection,
\* TestConnection, the source load and ListSocios succeeded, in that order;
\* a run in which one of them failed ends without any record handled.
C4_CallsOnlyAfterPreflight ==
  /\ \E n \in 0..4 : steps = SubSeq(PreflightSteps, 1, n)
  /\ log # <<>> => steps = PreflightSteps
  /\ pc \in {"loop", "check"} => steps = PreflightSteps
  /\ (pc = "done" /\ retErr \in { PreflightErrors[n] : n \in 1..4 }) =>
       /\ log = <<>>
       /\ steps # PreflightSteps

\* A create call was issued in a run whose four pre-flight steps succeeded.
C4_Witness ==
  /\ steps = PreflightSteps
  /\ \E k \in 1..Len(log) : IsCall(log[k])

\* Positions of the items of the ListSocios snapshot that carry a DNI.
Matches(dni) == { m \in 1..Len(bitrixSocios) : bitrixSocios[m].DNI = dni }

SetMin(S) == CHOOSE x \in S : \A y \in S : x <= y

\* C5: for a source record with a non-empty DNI the action is a function of
\* the record and of its matching item of the remote snapshot: create exactly
\* when no item carries the DNI, otherwise update or skip as NeedsUpdate says
\* of a matching item; equal records get equal actions whatever their position
\* and whatever happened to earlier calls, and classifying the record again on
\* the same snapshots gives the action that was taken.
C5_ClassificationIsPure ==
  \A k \in 1..Len(log) :
    log[k].dni # "" =>
      LET s == sageSocios[log[k].pos] IN
        /\ (log[k].action = "create") <=> (Matches(s.DNI) = {})
        /\ Matches(s.DNI) # {} =>
             \E m \in Matches(s.DNI) :
               log[k].action = IF NeedsUpdate(bitrixSocios[m], s) THEN "update" ELSE "skip"
        /\ log[k].action = Classify(s)
        /\ \A j \in 1..Len(log) :
             sageSocios[log[j].pos] = s => log[j].action = log[k].action

\* The same source record twice in the snapshot: the first create failed, the
\* second was still classified create and succeeded.
C5_Witness ==
  /\ Len(log) = 2
  /\ sageSocios[1] = sageSocios[2]
  /\ log[1].action = "create" /\ ~log[1].ok
  /\ log[2].action = "create" /\ log[2].ok

\* C6: when several items of the remote snapshot share a DNI, the index keeps
\* the first one in input order: NeedsUpdate is evaluated against the first
\* item and an update is addressed to the first item's id.
C6_FirstDuplicateWins ==
  \A k \in 1..Len(log) :
    (log[k].dni # "" /\ Matches(log[k].dni) # {}) =>
      LET first == bitrixSocios[SetMin(Matches(log[k].dni))]
          s == sageSocios[log[k].pos]
      IN /\ log[k].action = IF NeedsUpdate(first, s) THEN "update" ELSE "skip"
         /\ log[k].action = "update" => log[k].id = first.ID

\* C7: if the run before this one ended naturally with every create and update
\* succeeding and the source did not change, this run creates nothing, updates
\* nothing and, when it ends naturally, has skipped every record.
C7_SecondRunAllSkipped ==
  (run >= 2 /\ prevRunClean) =>
    /\ result.SociosCreated = 0
    /\ result.SociosUpdated = 0
    /\ \A k \in 1..Len(log) : log[k].action = "skip"
    /\ (pc = "done" /\ retErr = Nil) => result.SociosSkipped = result.SociosProcessed

\* C8: cancellation is checked after every record handled, whatever its
\* outcome: no record is handled after one that ended with the context done,
\* and a run in which a record ended with the context done ends with the
\* cancellation error and success = false.
C8_NoRecordAfterCancellation ==
  /\ \A k \in 1..(Len(log) - 1) : ~log[k].ctxDone
  /\ (pc = "done" /\ \E k \in 1..Len(log) : log[k].ctxDone) =>
       /\ retErr = CancelError
       /\ ~result.Success

\* C9: the step that observes the cancellation leaves the counters, the
\* per-record errors, the store and the call log as they were, appends the
\* cancellation message as last error and keeps processed = snapshot size; the
\* report of a cancelled run therefore still counts the calls made before.
C9_CancelStep ==
  (pc = "check" /\ pc' = "done") =>
    /\ retErr' = CancelError
    /\ result'.SociosCreated = result.SociosCreated
    /\ result'.SociosUpdated = result.SociosUpdated
    /\ result'.SociosSkipped = result.SociosSkipped
    /\ result'.Errors = Append(result.Errors, CancelError)
    /\ result'.SociosProcessed = Len(sageSocios)
    /\ store' = store
    /\ Len(log') = Len(log)

C9_CancelledReport ==
  (pc = "done" /\ retErr = CancelError) =>
    /\ result.SociosCreated = Cardinality(OkCalls("create"))
    /\ result.SociosUpdated = Cardinality(OkCalls("update"))
    /\ result.SociosSkipped = Cardinality(Skips)
    /\ result.Errors = Append(ErrorsOfLog(log), CancelError)
    /\ result.SociosProcessed = Len(sageSocios)

C9_CancelKeepsPartialWork == [][C9_CancelStep]_vars /\ []C9_CancelledReport

\* A run ended by cancellation after a failed call and a successful create,
\* with a record of the snapshot left unhandled.
C9_Witness ==
  /\ pc = "done" /\ retErr = CancelError
  /\ result.SociosCreated = 1
  /\ Len(result.Errors) = 2
  /\ Len(log) < Len(sageSocios)

\* C10: within one run every source record is handled once, in order, with at
\* most one remote call; a failed call is not attempted again.
C10_AtMostOneCallPerRecord ==
  /\ Len(log) <= Len(sageSocios)
  /\ \A k \in 1..Len(log) : log[k].pos = k
  /\ \A j, k \in 1..Len(log) : (j < k) => log[j].pos < log[k].pos

\* A run ended naturally although both of its calls failed.
C10_Witness ==
  /\ pc = "done" /\ retErr = Nil
  /\ Len(log) = 2
  /\ \A k \in 1..2 : IsCall(log[k]) /\ ~log[k].ok

\* C11: a source record with an empty DNI that reaches synchronizeSocios is
\* classified skip: no call is issued for it, it adds no error, and it is
\* counted in skipped (skipped counts exactly the records handled as skip,
\* the errors are exactly those of the failed calls and of a cancellation).
C11_EmptyIdIsSkipped ==
  (run = 1 /\ pc \in {"loop", "check", "done"}) =>
    /\ \A k \in 1..Len(log) :
         log[k].dni = "" =>
           /\ log[k].action = "skip"
           /\ ~IsCall(log[k])
           /\ log[k].ok
    /\ result.SociosSkipped = Cardinality(Skips)
    /\ result.SociosCreated + result.SociosUpdated = Cardinality({ k \in 1..Len(log) : IsCall(log[k]) /\ log[k].ok })
    /\ store = bitrixSocios \/ \E k \in 1..Len(log) : IsCall(log[k]) /\ log[k].ok
    /\ result.Errors = ErrorsOfLog(log) \/ result.Errors = Append(ErrorsOfLog(log), CancelError)

\* Two records were handed over, the first without DNI: it was skipped
\* without a call and the second was created.
C11_Witness ==
  /\ run = 1
  /\ pc = "done"
  /\ Len(log) = 2
  /\ log[1].dni = "" /\ log[1].action = "skip"
  /\ log[2].action = "create" /\ log[2].ok
  /\ result.SociosSkipped = 1
  /\ result.SociosCreated = 1
  /\ result.Errors = <<>>

\* The position in the snapshot of the i-th failed call of the run.
NthFailed(i) ==
  CHOOSE k \in FailedCalls : Cardinality({ j \in FailedCalls : j <= k }) = i

\* C12: the calls of a run are issued one at a time in the order of the source
\* snapshot: the k-th record handled is the k-th record of the snapshot, the
\* call for it is made before any later record is looked at, and the i-th
\* per-record message of errors belongs to the i-th record whose call failed,
\* so the messages keep the order of the source records.
C12_CallsAndErrorsInSourceOrder ==
  /\ \A k \in 1..Len(log) :
       /\ k <= Len(sageSocios)
       /\ log[k].dni = sageSocios[k].DNI
  /\ pc \in {"loop", "check"} => idx \in {Len(log), Len(log) + 1}
  /\ Len(result.Errors) >= Cardinality(FailedCalls)
       => \A i \in 1..Cardinality(FailedCalls) :
            /\ result.Errors[i][2] = sageSocios[NthFailed(i)].DNI
            /\ result.Errors[i][1] = IF log[NthFailed(i)].action = "create"
                                     THEN "Failed to create socio"
                                     ELSE "Failed to update socio"
  /\ pc \in {"loop", "check", "done"} /\ steps = PreflightSteps
       => Len(result.Errors) >= Cardinality(FailedCalls)

\* The calls for a record A and for a later record B both failed: the message
\* for A comes first.
C12_Witness ==
  /\ pc = "done"
  /\ Len(log) = 3
  /\ FailedCalls = {1, 3}
  /\ log[1].dni = "A" /\ log[3].dni = "B"
  /\ result.Errors = << <<"Failed to update socio", "A">>, <<"Failed to create socio", "B">> >>

\* The fields NeedsUpdate looks at, taken from a remote record.
Compared(b) == <<b.Cargo, b.Administrador, b.Participacion, b.RazonSocialEmpleado>>

\* C13: NeedsUpdate(remote, source) is true exactly when one of Cargo,
\* Administrador, Participacion, RazonSocialEmpleado of the remote record
\* differs from the same field of convertSageToBitrix(source); replacing only
\* the Title, ID and DNI of the remote record leaves the result as it was.
C13_NeedsUpdateComparesFourFields ==
  /\ eval.fn \in {"NeedsUpdate", "NeedsUpdateChanged"} =>
       (eval.out <=> Compared(eval.remote) # Compared(convertSageToBitrix(eval.socio)))
  /\ eval.fn = "NeedsUpdateChanged" => eval.out = eval.before

\* A remote record with cargo "Old" against a source that maps to "Director"
\* needs an update, and still does after its title, id and DNI were replaced;
\* the title of the replaced record is not the one the source maps to.
C13_Witness ==
  /\ eval.fn = "NeedsUpdateChanged"
  /\ eval.remote.Cargo = "Old"
  /\ convertSageToBitrix(eval.socio).Cargo = "Director"
  /\ eval.remote.Title # convertSageToBitrix(eval.socio).Title
  /\ eval.remote.DNI # eval.socio.DNI
  /\ eval.out /\ eval.before

\* C14: convertSageToBitrix has a value for every source record:
\* Administrador is "Y" for an administrator and "N" otherwise, Cargo is the
\* source cargo or "No especificado" when that is empty, Title is the name or
\* the DNI when the name is empty, DNI and RazonSocialEmpleado are copied.
C14_ConvertMapsEveryField ==
  eval.fn = "convertSageToBitrix" =>
    LET socio == eval.socio
        out == eval.out
    IN /\ DOMAIN out = {"ID", "Title", "DNI", "Cargo", "Administrador", "Participacion",
                        "RazonSocialEmpleado"}
       /\ (socio.Administrador => out.Administrador = "Y")
       /\ (~socio.Administrador => out.Administrador = "N")
       /\ (socio.CargoAdministrador # "" => out.Cargo = socio.CargoAdministrador)
       /\ (socio.CargoAdministrador = "" => out.Cargo = "No especificado")
       /\ (socio.RazonSocialEmpleado # "" => out.Title = socio.RazonSocialEmpleado)
       /\ (socio.RazonSocialEmpleado = "" => out.Title = socio.DNI)
       /\ out.DNI = socio.DNI
       /\ out.RazonSocialEmpleado = socio.RazonSocialEmpleado

\* A record without cargo and without name was converted: default cargo,
\* title taken from the DNI.
C14_Witness ==
  /\ eval.fn = "convertSageToBitrix"
  /\ eval.socio.CargoAdministrador = "" /\ eval.socio.RazonSocialEmpleado = ""
  /\ eval.socio.DNI = "A" /\ ~eval.socio.Administrador
  /\ eval.out.Cargo = "No especificado" /\ eval.out.Title = "A"
  /\ eval.out.Administrador = "N"

\* The percentage a string of digits stands for, in hundredths, when it has
\* two fractional digits.
Hundredths(str) == str[1] * 100 + str[2] * 10 + str[3]

\* C15: for every percentage from 0 to 100 with at most two decimals
\* formatFloat gives the whole part followed by exactly two fractional
\* digits that spell the value (12.5 gives "12.50", 0 gives "0.00", 100 gives
\* "100.00"), and two values that differ give different strings.
C15_TwoFractionalDigits ==
  eval.fn = "formatFloat" =>
    /\ Len(eval.outf) = 3
    /\ eval.outf[2] \in 0..9 /\ eval.outf[3] \in 0..9
    /\ Hundredths(eval.outf) = eval.f
    /\ eval.f = 1250 => eval.outf = <<12, 5, 0>>
    /\ eval.f = 0 => eval.outf = <<0, 0, 0>>
    /\ eval.f = 10000 => eval.outf = <<100, 0, 0>>
    /\ eval.f # eval.g => eval.outf # eval.outg

\* 12.5 and 12.51 were formatted: "12.50" and "12.51".
C15_Witness ==
  /\ eval.fn = "formatFloat"
  /\ eval.f = 1250 /\ eval.g = 1251
  /\ eval.outf = <<12, 5, 0>> /\ eval.outg = <<12, 5, 1>>

\* C16: for a valid source record s, NeedsUpdate(convertSageToBitrix(s), s)
\* is false; when no item of the snapshot has the DNI of s it is classified
\* create, and once the converted record is in the snapshot (and the index is
\* built from it) s is classified skip.
C16_CreateThenMatch ==
  /\ eval.fn = "NeedsUpdateMapped" => ~eval.out
  /\ (eval.fn = "Classify"
       /\ \A i \in 1..Len(bitrixSocios) : bitrixSocios[i].DNI # sageSocios[1].DNI)
      => eval.out = "create"
  /\ eval.fn = "ClassifyAgain" => eval.out = "skip"

\* A record without cargo was classified create against a snapshot of two
\* other items, its converted record was added, and it was classified again.
C16_Witness ==
  /\ eval.fn = "ClassifyAgain"
  /\ eval.out = "skip"
  /\ sageSocios[1].CargoAdministrador = ""
  /\ Len(bitrixSocios) = 3
  /\ bitrixSocios[3].DNI = sageSocios[1].DNI
  /\ bitrixSocios[3].Cargo = "No especificado"

\* A reply with a status outside 200..299.
NonSuccessStatus(r) == r.transport /\ r.status \notin 200..299

\* A reply that is a success: status 200, a body that decodes, no error object.
SuccessReply(r) == r.transport /\ r.status = 200 /\ r.body.json /\ ~r.body.ErrPresent

\* A reply whose body is an error envelope with an error code.
ApiFailure(r) == r.transport /\ r.body.json /\ r.body.ErrPresent /\ r.body.ErrorCode # ""

ListError == <<"failed to fetch socios from Bitrix24">>

C18_NonSuccessStatusIsError ==
  /\ (seen.call = "list" /\ NonSuccessStatus(seen.resp))
      => /\ pc = "done"
         /\ retErr = ListError
         /\ bitrixSocios = <<>>
         /\ "list" \notin { steps[i] : i \in 1..Len(steps) }
  /\ (seen.call \in {"create", "update"} /\ NonSuccessStatus(seen.resp))
      => /\ seen.pos \in 1..Len(log)
         /\ log[seen.pos].action = seen.call
         /\ ~log[seen.pos].ok
         /\ seen.pos \in FailedCalls
         /\ Len(result.Errors) >= Cardinality(FailedCalls)
         /\ result.Errors[Cardinality({ j \in FailedCalls : j <= seen.pos })]
              = << IF seen.call = "create" THEN "Failed to create socio"
                   ELSE "Failed to update socio", log[seen.pos].dni >>
         /\ result.SociosCreated = Cardinality(OkCalls("create"))
         /\ result.SociosUpdated = Cardinality(OkCalls("update"))

\* The list call was answered 500 with a body that decodes as a success and
\* carries an item: the run ended with the list error and an empty snapshot.
C18_Witness ==
  /\ seen.call = "list"
  /\ seen.resp = RespServerError
  /\ seen.items # <<>>
  /\ pc = "done" /\ retErr = ListError
  /\ bitrixSocios = <<>>

\* C19: TestConnection is a gate: when the probe call meets a transport error
\* or a status outside 200..299, TestConnection returns an error and the run
\* ends there, with no load, list, create or update.
C19_FailedProbeStopsRun ==
  (seen.call = "test" /\ (~seen.resp.transport \/ NonSuccessStatus(seen.resp)))
    => /\ pc = "done"
       /\ retErr = <<"failed to connect to Bitrix24">>
       /\ steps = <<"connect">>
       /\ sageSocios = <<>>
       /\ log = <<>>

\* A reply with a 200-level status whose body is an error envelope.
EnvelopeReply(r) == r.transport /\ r.status \in 200..299 /\ r.body.json /\ r.body.ErrPresent

\* C20: a reply with a 200-level status that carries an error envelope is a
\* failure of the call, for every error envelope: a create or update is
\* recorded as failed (message in errors, counters not raised), TestConnection
\* and ListSocios end the run with their error.
C20_EnvelopeIsFailure ==
  /\ (seen.call \in {"create", "update"} /\ EnvelopeReply(seen.resp))
      => /\ seen.pos \in FailedCalls
         /\ result.SociosCreated = Cardinality(OkCalls("create"))
         /\ result.SociosUpdated = Cardinality(OkCalls("update"))
  /\ (seen.call \in {"test", "list"} /\ EnvelopeReply(seen.resp))
      => /\ pc = "done"
         /\ retErr # Nil
         /\ ~result.Success

\* The positions of the rows of the query result that scan and have a DNI.
GoodRows == { i \in 1..Len(sageDB) : sageDB[i].DNI \notin {"", SqlNull}
                                      /\ sageDB[i].CargoAdministrador # SqlNull
                                      /\ sageDB[i].RazonSocialEmpleado # SqlNull }

NthGoodRow(k) == CHOOSE i \in GoodRows : Cardinality({ j \in GoodRows : j <= i }) = k

LoadError == <<"failed to fetch socios from Sage">>

\* C21: the snapshot GetAll returns holds exactly the rows that scan and have
\* a DNI, in the order of the rows: a row that fails to scan is left out and
\* every good row after it is still there.  Such a row does not abort the
\* run, adds no error and is not counted in processed.  When the query or
\* the iteration fails, GetAll returns no records and the run ends with the
\* load error.
C21_ScanFailureSkipsRow ==
  /\ \A k \in 1..Len(sageSocios) : sageSocios[k].DNI # ""
  /\ steps # <<>> /\ steps[Len(steps)] \in {"load", "list"}
      => /\ Len(sageSocios) = Cardinality(GoodRows)
         /\ \A k \in 1..Len(sageSocios) : sageSocios[k] = sageDB[NthGoodRow(k)]
  /\ steps = PreflightSteps
      => /\ result.SociosProcessed = Cardinality(GoodRows)
         /\ result.Errors \in {ErrorsOfLog(log), Append(ErrorsOfLog(log), CancelError)}
         /\ (pc = "done" /\ ~ctxDone) => (result.Success /\ retErr = Nil
                                           /\ Len(log) = Cardinality(GoodRows))
  /\ retErr = LoadError
      => /\ pc = "done"
         /\ sageSocios = <<>>
         /\ steps = <<"connect", "test">>
         /\ log = <<>>
         /\ result.SociosProcessed = 0
         /\ result.Errors = <<LoadError>>
         /\ ~result.Success

\* The first row of the result did not scan, the second did: the run ended
\* naturally with one record processed and created, and no error.
C21_Witness ==
  /\ pc = "done" /\ result.Success
  /\ Len(sageDB) = 2
  /\ sageDB[1].CargoAdministrador = SqlNull
  /\ GoodRows = {2}
  /\ sageSocios = <<sageDB[2]>>
  /\ result.SociosProcessed = 1
  /\ result.SociosCreated = 1
  /\ result.Errors = <<>>

\* The records of a sequence whose DNI is not among the keys, in its order.
RECURSIVE Without(_, _)
Without(socios, keys) ==
  IF socios = <<>> THEN <<>>
  ELSE IF Head(socios).DNI \in keys THEN Without(Tail(socios), keys)
       ELSE <<Head(socios)>> \o Without(Tail(socios), keys)

\* C22: GetAllExcept(keys) returns exactly the records of GetAll() whose DNI
\* is not among the keys, in the same order; with no keys it returns what
\* GetAll() returns, error included.
C22_GetAllExceptIsFilteredGetAll ==
  eval.fn = "GetAllExcept" =>
    /\ eval.fault = "none" =>
         /\ eval.out.err = Nil
         /\ eval.out.socios =
              Without(RepoGetAll(eval.table, "none").socios, Range(eval.excludeDNIs))
    /\ eval.excludeDNIs = <<>> => eval.out = RepoGetAll(eval.table, eval.fault)

\* B comes before A in the table, one key is excluded: GetAll returns both
\* records, A first, and GetAllExcept returns the other one alone.
C22_Witness ==
  /\ eval.fn = "GetAllExcept"
  /\ eval.fault = "none"
  /\ eval.excludeDNIs = <<"A">>
  /\ Len(eval.table) = 3
  /\ eval.table[1].DNI = "B" /\ eval.table[2].DNI = "A" /\ eval.table[3].DNI = ""
  /\ Len(RepoGetAll(eval.table, "none").socios) = 2
  /\ RepoGetAll(eval.table, "none").socios[1].DNI = "A"
  /\ eval.out.socios = <<eval.table[1]>>

\* The positions in the log of the calls made so far in this run.
CallEntries == { k \in 1..Len(log) : IsCall(log[k]) }

\* C24: every update is addressed to the id of a record of the remote
\* snapshot whose DNI is the DNI of the source record, and to no record with
\* another DNI; what an applied update leaves in the store under that id is
\* convertSageToBitrix of the source record; no create is issued for a DNI
\* that a record of the snapshot has.
C24_UpdateAddressedByDni ==
  /\ \A k \in 1..Len(log) :
       /\ log[k].action = "update" =>
            /\ log[k].dni = sageSocios[log[k].pos].DNI
            /\ \E i \in 1..Len(bitrixSocios) :
                 bitrixSocios[i].ID = log[k].id /\ bitrixSocios[i].DNI = log[k].dni
            /\ \A i \in 1..Len(bitrixSocios) :
                 bitrixSocios[i].ID = log[k].id => bitrixSocios[i].DNI = log[k].dni
       /\ log[k].action = "create" =>
            \A i \in 1..Len(bitrixSocios) : bitrixSocios[i].DNI # log[k].dni
  /\ (seen.call = "update" /\ Applied(seen.resp)) =>
       /\ CallEntries # {}
       /\ LET k == CHOOSE j \in CallEntries : \A m \in CallEntries : m <= j IN
            /\ log[k].action = "update" /\ log[k].pos = seen.pos
            /\ \E i \in 1..Len(store) : store[i].ID = log[k].id
            /\ \A i \in 1..Len(store) :
                 store[i].ID = log[k].id =>
                   store[i] = [convertSageToBitrix(sageSocios[seen.pos])
                                 EXCEPT !.ID = log[k].id]

\* The snapshot holds a record without DNI and then the record of A; the
\* update for A was applied to the second one and left the first alone.
C24_Witness ==
  /\ Len(bitrixSocios) = 2
  /\ bitrixSocios[1].DNI = "" /\ bitrixSocios[2].DNI = "A"
  /\ seen.call = "update" /\ Applied(seen.resp)
  /\ \E k \in 1..Len(log) :
       log[k].action = "update" /\ log[k].ok /\ log[k].id = bitrixSocios[2].ID
  /\ store[1] = bitrixSocios[1]
  /\ store[2] # bitrixSocios[2]
  /\ store[2].DNI = "A"

\* The number of per-record messages in Errors: every message but the one of
\* the cancellation.
RECURSIVE PerRecordErrors(_)
PerRecordErrors(errs) ==
  IF errs = <<>> THEN 0
  ELSE (IF Head(errs) = CancelError THEN 0 ELSE 1) + PerRecordErrors(Tail(errs))

\* The number of records the loop has handled.
Handled ==
  IF pc = "loop" THEN idx - 1 ELSE IF pc = "check" THEN idx ELSE Len(log)

Accounted ==
  result.SociosCreated + result.SociosUpdated + result.SociosSkipped
    + PerRecordErrors(result.Errors)

\* C25: once the loop is entered, created + updated + skipped + the number
\* of per-record error messages is the number of records handled so far and
\* is at most processed; at a natural end of the loop it is processed; every
\* record handled is in exactly one of the four.
C25_CountersAccountForRecords ==
  steps = PreflightSteps =>
    /\ Accounted = Handled
    /\ Handled = Len(log)
    /\ Accounted <= result.SociosProcessed
    /\ (pc = "done" /\ retErr = Nil) => Accounted = result.SociosProcessed
    /\ \A p \in 1..Handled :
         /\ log[p].pos = p
         /\ Cardinality({ a \in {"create", "update", "skip", "error"} :
                           \/ a = "error" /\ IsCall(log[p]) /\ ~log[p].ok
                           \/ a = log[p].action /\ log[p].ok }) = 1
    /\ result.SociosCreated = Cardinality(OkCalls("create"))
    /\ result.SociosUpdated = Cardinality(OkCalls("update"))
    /\ result.SociosSkipped = Cardinality(Skips)
    /\ PerRecordErrors(result.Errors) = Cardinality(FailedCalls)

\* A run of three records ended naturally with one created, one updated or
\* skipped and one failed.
C25_Witness ==
  /\ pc = "done" /\ retErr = Nil /\ steps = PreflightSteps
  /\ result.SociosProcessed = 3
  /\ result.SociosCreated = 1
  /\ PerRecordErrors(result.Errors) = 1
  /\ result.SociosUpdated + result.SociosSkipped = 1

\* A run was cancelled after its first record failed: the sum is 1 of 2.
C25_WitnessPartial ==
  /\ pc = "done" /\ retErr # Nil /\ steps = PreflightSteps
  /\ Accounted = 1 /\ result.SociosProcessed >= 2

\* The DNIs of the records of the remote snapshot.
SnapshotDnis == { bitrixSocios[i].DNI : i \in 1..Len(bitrixSocios) }

\* C26: the index is built once from the snapshot and the creates of the run
\* do not enter it: a DNI created in the run is still not in the index, every
\* source record of a DNI that the snapshot lacks is classified create, also
\* when an earlier record of that DNI was created already, and the store
\* ends with one record of that DNI for each create that succeeded.
C26_IndexIgnoresOwnCreates ==
  steps = PreflightSteps =>
    /\ bitrixMap = BuildBitrixMap(bitrixSocios)
    /\ \A k \in 1..Len(log) :
         (log[k].dni # "" /\ log[k].dni \notin SnapshotDnis) =>
           /\ log[k].action = "create"
           /\ log[k].dni \notin DOMAIN bitrixMap
    /\ \A d \in {"A", "B"} \ SnapshotDnis :
         Cardinality({ i \in 1..Len(store) : store[i].DNI = d })
           = Cardinality({ k \in OkCalls("create") : log[k].dni = d })

\* Two source records of DNI A, which the snapshot lacks: two creates were
\* issued and succeeded, and the store holds two records of A.
C26_Witness ==
  /\ pc = "done" /\ result.Success
  /\ "A" \notin SnapshotDnis
  /\ Len(sageSocios) >= 2
  /\ sageSocios[1].DNI = "A" /\ sageSocios[2].DNI = "A"
  /\ log[1].action = "create" /\ log[1].ok
  /\ log[2].action = "create" /\ log[2].ok
  /\ result.SociosCreated >= 2
  /\ Cardinality({ i \in 1..Len(store) : store[i].DNI = "A" }) = 2

\* C27: for every source record FromSageSocio of package models and
\* convertSageToBitrix of the client give the same title, DNI, cargo,
\* administrator flag, participation string and company name, and for every
\* remote record the NeedsUpdate of package models and the NeedsUpdate of the
\* client give the same boolean.
C27_EntityModelCopiesAgree ==
  /\ eval.fn = "FromSageSocio" =>
       /\ eval.models.Title = eval.client.Title
       /\ eval.models.DNI = eval.client.DNI
       /\ eval.models.Cargo = eval.client.Cargo
       /\ eval.models.Administrador = eval.client.Administrador
       /\ eval.models.Participacion = eval.client.Participacion
       /\ eval.models.RazonSocialEmpleado = eval.client.RazonSocialEmpleado
  /\ eval.fn = "ModelsNeedsUpdate" => eval.models = eval.client

\* Both copies were applied to a record with empty cargo and name, and the
\* remote record differs from it in the cargo only: both answer TRUE.
C27_Witness ==
  /\ eval.fn = "ModelsNeedsUpdate"
  /\ eval.socio.CargoAdministrador = "" /\ eval.socio.RazonSocialEmpleado = ""
  /\ eval.remote.Cargo = "Old"
  /\ eval.remote.Administrador = (IF eval.socio.Administrador THEN "Y" ELSE "N")
  /\ eval.remote.Participacion = formatFloat(eval.socio.PorParticipacion)
  /\ eval.remote.RazonSocialEmpleado = ""
  /\ eval.models = TRUE /\ eval.client = TRUE

\* The report of a call that ran alone on the source snapshot ss and the
\* remote snapshot bs and whose calls for the first Len(oks) records were
\* answered as oks says, after those records.
RECURSIVE SoloLoop(_, _, _, _)
SoloLoop(ss, bs, oks, k) ==
  IF k = 0 THEN [NewResult EXCEPT !.SociosProcessed = Len(ss)]
  ELSE LET res == SoloLoop(ss, bs, oks, k - 1)
           action == ClassifyWith(bs, BuildBitrixMap(bs), ss[k])
       IN IF action = "skip" THEN [res EXCEPT !.SociosSkipped = @ + 1]
          ELSE IF ~oks[k]
          THEN [res EXCEPT !.Errors =
                  Append(@, << IF action = "create" THEN "Failed to create socio"
                               ELSE "Failed to update socio", ss[k].DNI >>)]
          ELSE IF action = "create" THEN [res EXCEPT !.SociosCreated = @ + 1]
          ELSE [res EXCEPT !.SociosUpdated = @ + 1]

SoloReport(l) ==
  LET oks == [k \in 1..Len(l.log) |-> l.log[k].ok]
      res == SoloLoop(l.sageSocios, l.bitrixSocios, oks, Len(oks))
  IN IF l.pc = "done"
     THEN [res EXCEPT !.Success = TRUE, !.EndTime = TRUE, !.Duration = TRUE]
     ELSE res

\* C23: with two calls of SyncSocios running concurrently, under every
\* interleaving the report of each call is the report of a call that runs
\* alone on this call's source snapshot, remote snapshot and replies, and
\* the two calls use different source connections and different clients.
C23_ConcurrentRunsAreIndependent ==
  pc = "conc" =>
    \A p \in Procs :
      LET l == procs[p] IN
        /\ l.retErr # Nil => l.result = completeResult(NewResult, l.retErr)
        /\ (l.retErr = Nil /\ l.pc \in {"start", "test", "load", "list"}) =>
             l.result = NewResult
        /\ (l.retErr = Nil /\ l.pc \in {"loop", "done"}) =>
             /\ Len(l.log) = (IF l.pc = "done" THEN Len(l.sageSocios) ELSE l.idx - 1)
             /\ l.result = SoloReport(l)
        /\ \A q \in Procs \ {p} :
             /\ (l.db # 0 /\ procs[q].db # 0) => l.db # procs[q].db
             /\ (l.client # 0 /\ procs[q].client # 0) => l.client # procs[q].client

\* Both calls ended naturally; the second listed the store after the first
\* had created its record, so the two reports differ: one created, the other
\* skipped the same source record.
C23_Witness ==
  /\ pc = "conc"
  /\ procs[1].pc = "done" /\ procs[2].pc = "done"
  /\ procs[1].result.Success /\ procs[2].result.Success
  /\ procs[1].sageSocios = procs[2].sageSocios
  /\ procs[1].result.SociosCreated = 1
  /\ procs[2].result.SociosCreated = 0
  /\ procs[2].result.SociosSkipped = 1
  /\ procs[1].bitrixSocios # procs[2].bitrixSocios

====
